---------------------------- MODULE Spec2Model ----------------------------
(***************************************************************************)
(* A model of ddc-macos-rs: the DDC/CI framer of Monitor::execute, the     *)
(* bus loop of send_request (Transport A), the display matchers of the two *)
(* transports and Monitor::enumerate.                                      *)
(*                                                                         *)
(* Byte buffers are sequences of 0..255.  The code indexes from 0 and TLA+ *)
(* from 1: At and Slice take the code's 0-based positions.                 *)
(***************************************************************************)
EXTENDS Integers, Sequences, FiniteSets, TLC

(***************************************************************************)
(* Bounds of the model.                                                    *)
(***************************************************************************)
\* payload fill patterns 0..MaxSeed
MaxSeed == 1

(***************************************************************************)
(* Program constants.                                                      *)
(***************************************************************************)
\* ddc::SUB_ADDRESS_DDC_CI = 0x51
SUB_ADDRESS_DDC_CI == 81
\* ddc::I2C_ADDRESS_DDC_CI = 0x37
I2C_ADDRESS_DDC_CI == 55
\* arm.rs: const I2C_ADDRESS_DDC_CI_MDCP29XX: u16 = 0xB7
I2C_ADDRESS_DDC_CI_MDCP29XX == 183
kIOI2CNoTransactionType == 0
kIOI2CSimpleTransactionType == 1
kIOI2CDDCciReplyTransactionType == 2
\* assert!(C::MAX_LEN <= 36); let mut encoded_command = [0u8; 36];
MaxCommandLen == 36
\* let mut request_data = [0u8; 36 + 3];
RequestDataLen == 39
\* let reply_data = [0u8; 36];
ReplyDataLen == 36

\* Option<T>: None is the empty sequence, Some(x) the sequence of x alone
None == <<>>
Some(x) == <<x>>
IsSome(o) == o # <<>>
Unwrap(o) == o[1]

(***************************************************************************)
(* Bytes and bitwise operations on them.                                   *)
(***************************************************************************)
Byte == 0..255

\* bit k of x
Bit(x, k) == (x \div (2 ^ k)) % 2
\* the byte whose bits are b[0..7]
Pack(b) ==
    b[0] + 2 * b[1] + 4 * b[2] + 8 * b[3] + 16 * b[4] + 32 * b[5] + 64 * b[6] + 128 * b[7]

BitXor(a, b) == Pack([k \in 0..7 |-> (Bit(a, k) + Bit(b, k)) % 2])
BitOr(a, b) == Pack([k \in 0..7 |-> IF Bit(a, k) + Bit(b, k) > 0 THEN 1 ELSE 0])
BitAnd(a, b) == Pack([k \in 0..7 |-> Bit(a, k) * Bit(b, k)])

\* `x as u8`
AsU8(x) == x % 256

\* buf[i], i counted from 0; an index past the end panics in Rust
InRange(buf, i) == i >= 0 /\ i < Len(buf)
At(buf, i) == buf[i + 1]
\* buf[a..b], positions counted from 0, b excluded
Slice(buf, a, b) == [k \in 1..(b - a) |-> buf[a + k]]
Zeros(n) == [k \in 1..n |-> 0]

(***************************************************************************)
(* State.  Each specification below drives one group of variables and      *)
(* leaves the others at their initial values.                              *)
(***************************************************************************)
VARIABLES
    \* Monitor::execute with a synthetic transport (framer)
    fpc,            \* position in execute
    payload,        \* encoded_command[0..command_length]
    chip,           \* the I2C chip address of the Monitor
    command,        \* whether the command defines a reply, and the negotiated type
    request,        \* the IOI2CRequest fields execute sets
    request_data,   \* the send buffer
    reply_data,     \* the reply buffer
    echoed,         \* the reply is the echo of the request packet
    corrupt_at,     \* position of the byte changed after the echo, or -1
    fresult,        \* what execute returns
    \* send_request (Transport A)
    spc,            \* position in send_request
    bus_count,      \* the count IOFBGetI2CInterfaceCount stored
    bus,            \* the loop variable
    result,         \* the local variable result
    sresult,        \* what send_request returned
    iface_held,     \* bus-interface handles held (IoObject not yet dropped)
    conn_open,      \* connections open (IoI2CInterfaceConnection not yet dropped)
    \* history of the call, kept for the claims
    attempts,       \* the bus indices passed to IOFBCopyI2CInterfaceForBus
    acquired,       \* for each attempt, whether the interface was acquired
    last_error,     \* the last native failure of any kind: <<stage, code>>
    last_conn_error,\* the last failure of an open or of a transaction
    succeeded_bus,  \* the bus whose transaction succeeded, or -1
    submitted,      \* the transactions submitted with IOI2CSendRequest
    completed,      \* those of them that completed successfully
    opened,         \* the connections IOI2CInterfaceOpen opened
    closed,         \* the calls of IOI2CInterfaceClose
    \* display matching and Monitor::enumerate
    mpc,            \* which operation ran: start, matchedA, matchedB, enumerated
    world,          \* what the host reports: displays, framebuffer ports, registry
    target,         \* the index of the display the matcher was given, or 0
    matchA,         \* what get_io_framebuffer_port returned
    matchB,         \* what get_display_av_service returned
    enumerated,     \* what Monitor::enumerate returned
    handles,        \* the native handles the matcher obtained and released
    \* the accessors of a Monitor
    dpc,            \* whether description() was called
    monitor,        \* the Monitor: its display's numbers, its port's name property
    described,      \* the string description() returned
    \* execute of intel.rs
    ipc,            \* position in execute
    out,            \* the caller's reply buffer
    irequest,       \* the IOI2CRequest fields execute sets
    iresult,        \* what execute returns
    \* get_supported_transaction_type
    npc,            \* whether the negotiation ran
    services,       \* the IOFramebufferI2CInterface services, in iteration order
    negotiated      \* the Option<u32> returned

framerVars == <<fpc, payload, chip, command, request, request_data, reply_data, echoed,
                corrupt_at, fresult>>

sendVars == <<spc, bus_count, bus, result, sresult, iface_held, conn_open,
              attempts, acquired, last_error, last_conn_error, succeeded_bus,
              submitted, completed, opened, closed>>

matchVars == <<mpc, world, target, matchA, matchB, enumerated, handles>>

describeVars == <<dpc, monitor, described>>

intelVars == <<ipc, out, irequest, iresult>>

negotiateVars == <<npc, services, negotiated>>

\* what the steps of execute leave alone
framerOthers == <<sendVars, matchVars, describeVars, intelVars, negotiateVars>>
\* what the steps of send_request leave alone
sendOthers == <<framerVars, matchVars, describeVars, intelVars, negotiateVars>>
\* what the matchers and enumerate leave alone
matchOthers == <<framerVars, sendVars, describeVars, intelVars, negotiateVars>>
\* what the accessors leave alone
describeOthers == <<framerVars, sendVars, matchVars, intelVars, negotiateVars>>
\* what the execute of intel.rs leaves alone
intelOthers == <<framerVars, sendVars, matchVars, describeVars, negotiateVars>>
\* what the negotiation leaves alone
negotiateOthers == <<framerVars, sendVars, matchVars, describeVars, intelVars>>

(***************************************************************************)
(* Protocol framer.                                                        *)
(***************************************************************************)
\* XOR of every byte of the sequence: bit k of the result is the parity of
\* the number of bytes with bit k set
checksum(seq) ==
    Pack([k \in 0..7 |-> Cardinality({i \in DOMAIN seq : Bit(seq[i], k) = 1}) % 2])

\* [sub_address, 0x80 | length, payload..., checksum], written at the start of
\* the zeroed request buffer; the checksum starts from the byte chip << 1
encode_command(data, chipaddr) ==
    LET L == Len(data)
        head == <<SUB_ADDRESS_DDC_CI, BitOr(128, L)>> \o data
        packet == Append(head, checksum(<<AsU8(chipaddr * 2)>> \o head))
    IN  [k \in 1..RequestDataLen |-> IF k <= Len(packet) THEN packet[k] ELSE 0]

\* a send count that leaves the checksum byte out
SendBytes_NoChecksum(command_length) == command_length + 2

\* request.sendBytes = (command_length + 3) as u32
SendBytes(command_length) == command_length + 3

\* Monitor::get_response_transaction_type: expects is C::Ok::MAX_LEN != 0,
\* supported the Option returned by get_supported_transaction_type
get_response_transaction_type(expects, supported) ==
    IF ~expects THEN kIOI2CNoTransactionType
    ELSE IF IsSome(supported) THEN Unwrap(supported) ELSE kIOI2CNoTransactionType

\* the command execute is given: expects is C::Ok::MAX_LEN != 0, supported
\* what get_supported_transaction_type answers during the call
Command(expects, supported) == [expects |-> expects, supported |-> supported]

\* the fields of the IOI2CRequest that execute fills in
BuildRequest(command_length, chipaddr, expects, supported) ==
    [ sendAddress          |-> chipaddr * 2,
      sendTransactionType  |-> kIOI2CSimpleTransactionType,
      sendBytes            |-> SendBytes(command_length),
      replyTransactionType |-> get_response_transaction_type(expects, supported),
      \* (chip << 1) | 1: the shifted address is even
      replyAddress         |-> chipaddr * 2 + 1,
      replySubAddress      |-> SUB_ADDRESS_DDC_CI,
      replyBytes           |-> ReplyDataLen ]

\* let mut request: IOI2CRequest = unsafe { std::mem::zeroed() }
ZeroedRequest ==
    [ sendAddress |-> 0, sendTransactionType |-> 0, sendBytes |-> 0,
      replyTransactionType |-> 0, replyAddress |-> 0, replySubAddress |-> 0,
      replyBytes |-> 0 ]

\* what execute has returned: nothing yet
NoResult == [kind |-> "None", data |-> <<>>]

\* a length check that leaves out the two header bytes
LengthRejected_NoHeader(reply_length, buflen) == reply_length >= buflen

\* a length check with > in place of >=
LengthRejected_Strict(reply_length, buflen) == reply_length + 2 > buflen

\* reply_length + 2 >= reply_data.len()
LengthRejected(reply_length, buflen) == reply_length + 2 >= buflen

\* iter::once(request.replyAddress as u8).chain(iter::once(SUB_ADDRESS_DDC_CI))
\*     .chain(reply_data[1..2 + reply_length])
ReplyChecksum(replyAddress, reply, reply_length) ==
    checksum(<<AsU8(replyAddress), SUB_ADDRESS_DDC_CI>>
             \o Slice(reply, 1, 2 + reply_length))

\* reply_data[2..reply_length + 2]
ReplyPayload(reply, reply_length) == Slice(reply, 2, reply_length + 2)

\* a decoder that returns the payload without comparing the checksum
Decode_Unchecked(replyTransactionType, replyAddress, reply) ==
    IF replyTransactionType = kIOI2CNoTransactionType
    THEN [kind |-> "Ok", data |-> <<>>]
    ELSE LET reply_length == BitAnd(At(reply, 1), 127)
         IN  IF LengthRejected(reply_length, Len(reply))
             THEN [kind |-> "InvalidLength", data |-> <<>>]
             ELSE [kind |-> "Ok", data |-> ReplyPayload(reply, reply_length)]

\* The tail of execute: what it returns for a reply buffer.  A slice or an
\* index past the end of the buffer is a panic.
Decode(replyTransactionType, replyAddress, reply) ==
    IF replyTransactionType = kIOI2CNoTransactionType
    THEN [kind |-> "Ok", data |-> <<>>]
    ELSE LET reply_length == BitAnd(At(reply, 1), 127)
         IN  IF LengthRejected(reply_length, Len(reply))
             THEN [kind |-> "InvalidLength", data |-> <<>>]
             ELSE IF ~InRange(reply, 2 + reply_length)
             THEN [kind |-> "Panic", data |-> <<>>]
             ELSE IF At(reply, 2 + reply_length)
                        # ReplyChecksum(replyAddress, reply, reply_length)
             THEN [kind |-> "InvalidChecksum", data |-> <<>>]
             ELSE [kind |-> "Ok", data |-> ReplyPayload(reply, reply_length)]

(***************************************************************************)
(* Inputs of the framer.                                                   *)
(***************************************************************************)
PatternPayload(L, s) == [i \in 1..L |-> (s * 93 + i * 37) % 256]

\* command payloads of every length execute accepts, and three particular ones:
\* "get VCP feature 0x60", a one-byte payload equal to the checksum of the
\* empty reply, and two equal bytes
Payloads ==
    { PatternPayload(L, s) : L \in 0..MaxCommandLen, s \in 0..MaxSeed }
        \cup { <<1, 96>>, <<190>>, <<7, 7>> }

ChipAddresses == { I2C_ADDRESS_DDC_CI, I2C_ADDRESS_DDC_CI_MDCP29XX }

SupportedTypes ==
    { None, Some(kIOI2CSimpleTransactionType), Some(kIOI2CDDCciReplyTransactionType) }

\* what a device that echoes the request leaves in the reply buffer: the
\* request packet with its checksum recomputed from the reply address, cut to
\* the request.replyBytes bytes the buffer holds
EchoReply(req, reqdata) ==
    LET L == req.sendBytes - 3
        head == Slice(reqdata, 0, 2 + L)
        packet == Append(head, checksum(<<AsU8(req.replyAddress), SUB_ADDRESS_DDC_CI>>
                                         \o Slice(head, 1, 2 + L)))
    IN  [k \in 1..req.replyBytes |-> IF k <= Len(packet) THEN packet[k] ELSE 0]

\* values a corrupted byte may take
CorruptValues == { 0, 1, 128, 190, 255 }

\* length bytes of an arbitrary reply
LengthBytes == { BitOr(128, l) : l \in 0..MaxCommandLen } \cup { 0, 33, 34, 127, 255 }

\* an arbitrary reply: a length byte, a fill pattern, and the byte at the
\* checksum position right or wrong when that position is in the buffer
ArbitraryReply(req, lenbyte, s, good) ==
    LET raw == [k \in 1..req.replyBytes |->
                    IF k = 2 THEN lenbyte ELSE (s * 61 + k * 11) % 256]
        len == BitAnd(lenbyte, 127)
    IN  IF 2 + len < req.replyBytes
        THEN LET ck == ReplyChecksum(req.replyAddress, raw, len)
             IN  [raw EXCEPT ![3 + len] = IF good THEN ck ELSE BitXor(ck, 1)]
        ELSE raw

(***************************************************************************)
(* Monitor::execute, with the transport replaced by a device that echoes   *)
(* the request, writes an arbitrary reply, or fails.                       *)
(***************************************************************************)
\* execute up to the call of send_request, for a command whose encoding is one
\* of PS: encode the command, zero the reply buffer, fill in the request
EncodeWith(PS) ==
    /\ UNCHANGED framerOthers
    /\ fpc = "start"
    /\ \E P \in PS, C \in ChipAddresses, expects \in BOOLEAN,
          supported \in SupportedTypes :
        /\ payload' = P
        /\ chip' = C
        /\ request_data' = encode_command(P, C)
        /\ command' = Command(expects, supported)
        /\ request' = BuildRequest(Len(P), C, expects, supported)
    /\ reply_data' = Zeros(ReplyDataLen)
    /\ fpc' = "sending"
    /\ UNCHANGED <<echoed, corrupt_at, fresult>>

\* execute is called with a command of any encoding
ExecuteEncode == EncodeWith(Payloads)

\* send_request fails: execute returns the error (the ? of the call)
TransportFails ==
    /\ UNCHANGED framerOthers
    /\ fpc = "sending"
    /\ fresult' = [kind |-> "Io", data |-> <<>>]
    /\ fpc' = "done"
    /\ UNCHANGED <<payload, chip, command, request, request_data, reply_data, echoed, corrupt_at>>

\* send_request succeeds for a request with no reply: the buffer is untouched
TransportNoReply ==
    /\ UNCHANGED framerOthers
    /\ fpc = "sending"
    /\ request.replyTransactionType = kIOI2CNoTransactionType
    /\ fpc' = "replied"
    /\ UNCHANGED <<payload, chip, command, request, request_data, reply_data, echoed, corrupt_at,
                   fresult>>

\* send_request succeeds and the device echoes the request packet
TransportEcho ==
    /\ UNCHANGED framerOthers
    /\ fpc = "sending"
    /\ request.replyTransactionType # kIOI2CNoTransactionType
    /\ reply_data' = EchoReply(request, request_data)
    /\ echoed' = TRUE
    /\ fpc' = "replied"
    /\ UNCHANGED <<payload, chip, command, request, request_data, corrupt_at, fresult>>

\* send_request succeeds and the device writes any reply
TransportArbitrary ==
    /\ UNCHANGED framerOthers
    /\ fpc = "sending"
    /\ request.replyTransactionType # kIOI2CNoTransactionType
    /\ payload \in { <<>>, <<1, 96>> }
    /\ \E lenbyte \in LengthBytes, s \in 0..MaxSeed, good \in BOOLEAN :
        reply_data' = ArbitraryReply(request, lenbyte, s, good)
    /\ fpc' = "replied"
    /\ UNCHANGED <<payload, chip, command, request, request_data, echoed, corrupt_at, fresult>>

\* one byte of an echoed packet changes to a different value on the way
CorruptReply ==
    /\ UNCHANGED framerOthers
    /\ fpc = "replied"
    /\ echoed
    /\ corrupt_at = -1
    /\ \E i \in 0..(ReplyDataLen - 1), v \in CorruptValues :
        /\ i <= 2 + Len(payload)
        /\ v # At(reply_data, i)
        /\ reply_data' = [reply_data EXCEPT ![i + 1] = v]
        /\ corrupt_at' = i
    /\ UNCHANGED <<fpc, payload, chip, command, request, request_data, echoed, fresult>>

\* the tail of execute
ExecuteDecode ==
    /\ UNCHANGED framerOthers
    /\ fpc = "replied"
    /\ fresult' = Decode(request.replyTransactionType, request.replyAddress, reply_data)
    /\ fpc' = "done"
    /\ UNCHANGED <<payload, chip, command, request, request_data, reply_data, echoed, corrupt_at>>

FramerNext ==
    \/ ExecuteEncode
    \/ TransportFails
    \/ TransportNoReply
    \/ TransportEcho
    \/ TransportArbitrary
    \/ CorruptReply
    \/ ExecuteDecode


(***************************************************************************)
(* Transport A: send_request, one native call per step.                    *)
(***************************************************************************)
\* bounds: the buses a port reports, and the failure codes besides KERN_FAILURE
MaxBuses == 3
MaxErrCode == 2

KERN_FAILURE == 5
kIOReturnSuccess == 0

\* the non-success codes a native call returns
ErrCodes == (1..MaxErrCode) \cup {KERN_FAILURE}
KernReturns == {kIOReturnSuccess} \cup ErrCodes

Ok == [kind |-> "Ok", code |-> 0]
Io(code) == [kind |-> "Io", code |-> code]
NoError == <<>>

\* verify_io
verify_io(kr) == IF kr = kIOReturnSuccess THEN Ok ELSE Io(kr)

\* kern_try! followed by map_err(From::from): the io::Error made from the raw
\* code becomes Error::Io(raw_os_error().unwrap_or(KERN_FAILURE))
FromKernTry(kr) == IF kr = kIOReturnSuccess THEN Ok ELSE Io(kr)

\* IoI2CInterfaceConnection::send_request: the call's status, then the
\* request's own result field
ConnectionSendRequest(kr, request_result) ==
    IF kr # kIOReturnSuccess THEN FromKernTry(kr) ELSE FromKernTry(request_result)

\* let mut result: Result<(), Error> = Err(Error::Io(KERN_FAILURE))
InitialResult == Io(KERN_FAILURE)

\* a loop that breaks on a failed transaction and goes on after a success
LoopBreaks_OnError(res) == res.kind # "Ok"

\* a loop that goes on to the next bus after a successful transaction
LoopBreaks_Never(res) == FALSE

\* if result.is_ok() { break; }
LoopBreaks(res) == res.kind = "Ok"

\* an assignment that keeps the first error instead of the last
AssignResult_KeepFirst(old, new) ==
    IF old # InitialResult /\ new.kind # "Ok" THEN old ELSE new

\* result = IoI2CInterfaceConnection::new(..).and_then(..).map_err(..)
AssignResult(old, new) == new

\* a connection that is closed only after a successful transaction
ClosedByDrop_OnSuccess(res) == IF res.kind = "Ok" THEN 1 ELSE 0

\* impl Drop for IoI2CInterfaceConnection: the closure of and_then owns the
\* connection and drops it when it returns, whatever the transaction's result;
\* the number of IOI2CInterfaceClose calls this makes
ClosedByDrop(res) == 1

\* verify_io(IOFBGetI2CInterfaceCount(..))?: a failure returns at once
GetInterfaceCount ==
    /\ UNCHANGED sendOthers
    /\ spc = "start"
    /\ \E kr \in KernReturns, count \in 0..MaxBuses :
        IF kr = kIOReturnSuccess
        THEN /\ bus_count' = count
             /\ spc' = "loop"
             /\ UNCHANGED <<sresult, last_error>>
        ELSE /\ count = 0
             /\ sresult' = verify_io(kr)
             /\ last_error' = <<"count", kr>>
             /\ spc' = "returned"
             /\ UNCHANGED bus_count
    /\ UNCHANGED <<bus, result, iface_held, conn_open, attempts, acquired,
                   last_conn_error, succeeded_bus, submitted, completed, opened, closed>>

\* for bus in 0..bus_count: IOFBCopyI2CInterfaceForBus; a failure goes on to
\* the next bus and leaves result alone
CopyInterfaceForBus ==
    /\ UNCHANGED sendOthers
    /\ spc = "loop"
    /\ bus < bus_count
    /\ attempts' = Append(attempts, bus)
    /\ \E kr \in KernReturns :
        IF kr = kIOReturnSuccess
        THEN /\ acquired' = Append(acquired, TRUE)
             /\ iface_held' = iface_held + 1
             /\ spc' = "open"
             /\ UNCHANGED <<bus, last_error>>
        ELSE /\ acquired' = Append(acquired, FALSE)
             /\ last_error' = <<"acquire", kr>>
             /\ bus' = bus + 1
             /\ UNCHANGED <<spc, iface_held>>
    /\ UNCHANGED <<bus_count, result, sresult, conn_open, last_conn_error, succeeded_bus,
                   submitted, completed, opened, closed>>

\* IoI2CInterfaceConnection::new: a failure is the result of this bus; the
\* interface is dropped at the end of the block
InterfaceOpen ==
    /\ UNCHANGED sendOthers
    /\ spc = "open"
    /\ \E kr \in KernReturns :
        IF kr = kIOReturnSuccess
        THEN /\ conn_open' = conn_open + 1
             /\ opened' = opened + 1
             /\ spc' = "send"
             /\ UNCHANGED <<bus, result, iface_held, last_error, last_conn_error>>
        ELSE /\ result' = AssignResult(result, FromKernTry(kr))
             /\ last_error' = <<"open", kr>>
             /\ last_conn_error' = <<"open", kr>>
             /\ iface_held' = iface_held - 1
             /\ bus' = bus + 1
             /\ spc' = "loop"
             /\ UNCHANGED <<conn_open, opened>>
    /\ UNCHANGED <<bus_count, sresult, attempts, acquired, succeeded_bus,
                   submitted, completed, closed>>

\* connection.send_request(request), after which the closure drops the
\* connection (IOI2CInterfaceClose); then break on success, else the next bus;
\* either way the interface is dropped
SendAndClose ==
    /\ UNCHANGED sendOthers
    /\ spc = "send"
    /\ \E kr \in KernReturns, request_result \in KernReturns :
        LET r == ConnectionSendRequest(kr, request_result)
        IN  /\ (kr # kIOReturnSuccess => request_result = kIOReturnSuccess)
            /\ result' = AssignResult(result, r)
            /\ completed' = IF r.kind = "Ok" THEN completed + 1 ELSE completed
            /\ conn_open' = conn_open - ClosedByDrop(r)
            /\ closed' = closed + ClosedByDrop(r)
            /\ IF r.kind = "Ok"
               THEN /\ succeeded_bus' = bus
                    /\ UNCHANGED <<last_error, last_conn_error>>
               ELSE /\ last_error' = <<"transaction", r.code>>
                    /\ last_conn_error' = <<"transaction", r.code>>
                    /\ UNCHANGED succeeded_bus
            /\ IF LoopBreaks(r)
               THEN spc' = "sleep" /\ UNCHANGED bus
               ELSE spc' = "loop" /\ bus' = bus + 1
    /\ submitted' = submitted + 1
    /\ iface_held' = iface_held - 1
    /\ UNCHANGED <<bus_count, sresult, attempts, acquired, opened>>

\* the loop ends with no bus left
LoopExhausted ==
    /\ UNCHANGED sendOthers
    /\ spc = "loop"
    /\ bus >= bus_count
    /\ spc' = "sleep"
    /\ UNCHANGED <<bus_count, bus, result, sresult, iface_held, conn_open, attempts,
                   acquired, last_error, last_conn_error, succeeded_bus,
                   submitted, completed, opened, closed>>

\* std::thread::sleep(post_request_delay); result
SleepAndReturn ==
    /\ UNCHANGED sendOthers
    /\ spc = "sleep"
    /\ sresult' = result
    /\ spc' = "returned"
    /\ UNCHANGED <<bus_count, bus, result, iface_held, conn_open, attempts, acquired,
                   last_error, last_conn_error, succeeded_bus,
                   submitted, completed, opened, closed>>

SendNext ==
    \/ GetInterfaceCount
    \/ CopyInterfaceForBus
    \/ InterfaceOpen
    \/ SendAndClose
    \/ LoopExhausted
    \/ SleepAndReturn

(***************************************************************************)
(* A whole call of execute: the request is built, send_request runs its    *)
(* bus loop, and the reply buffer is decoded.  The bytes the device wrote  *)
(* during the transaction are seen by execute when send_request returns.   *)
(***************************************************************************)
\* execute is called with "get VCP feature 0x60" or with an empty command
CallExecute == EncodeWith({ <<1, 96>>, <<>> })

\* the steps of send_request, inside execute
CallGetInterfaceCount == fpc = "sending" /\ GetInterfaceCount
CallCopyInterfaceForBus == fpc = "sending" /\ CopyInterfaceForBus
CallInterfaceOpen == fpc = "sending" /\ InterfaceOpen
CallSendAndClose == fpc = "sending" /\ SendAndClose
CallLoopExhausted == fpc = "sending" /\ LoopExhausted
CallSleepAndReturn == fpc = "sending" /\ SleepAndReturn

\* self.send_request(..)?: the error of send_request is returned
ReturnSendError == spc = "returned" /\ sresult.kind = "Io" /\ TransportFails
\* send_request returned Ok(()) and there was no reply transaction
ReturnNoReply == spc = "returned" /\ sresult.kind = "Ok" /\ TransportNoReply
\* send_request returned Ok(()) and the device answered
ReturnEcho == spc = "returned" /\ sresult.kind = "Ok" /\ TransportEcho

ExecuteNext ==
    \/ CallExecute
    \/ CallGetInterfaceCount
    \/ CallCopyInterfaceForBus
    \/ CallInterfaceOpen
    \/ CallSendAndClose
    \/ CallLoopExhausted
    \/ CallSleepAndReturn
    \/ ReturnSendError
    \/ ReturnNoReply
    \/ ReturnEcho
    \/ CorruptReply
    \/ ExecuteDecode

(***************************************************************************)
(* Display matching: values of the property dictionaries.                  *)
(***************************************************************************)
\* bounds: framebuffer ports, registry entries and displays of a world
MaxPorts == 2
MaxEntries == 3
MaxDisplays == 2

\* Integers wider than 31 bits are pairs <<hi, lo>> of value hi * 2^16 + lo,
\* with lo in 0..65535: a u32 has hi in 0..65535, an i32 hi in -32768..32767.
Limb == 65536
U32(n) == <<n \div Limb, n % Limb>>
\* `x as u32`: the low 32 bits
AsU32(x) == <<x[1] % Limb, x[2]>>
\* whether an i32 holds the value
FitsI32(x) == x[1] >= -(Limb \div 2) /\ x[1] < Limb \div 2

\* a dictionary value: missing, a CFNumber holding n = <<hi, lo>>, or of
\* another type
Absent == [t |-> "absent", n |-> <<0, 0>>]
Num(hi, lo) == [t |-> "num", n |-> <<hi, lo>>]
Other == [t |-> "other", n |-> <<0, 0>>]

\* find(key)?.downcast::<CFNumber>()?.to_i64()? as u32
RequiredU32(prop) == IF prop.t = "num" THEN Some(AsU32(prop.n)) ELSE None

\* CFNumber::to_i32: only a value an i32 holds converts
ToI32(n) == IF FitsI32(n) THEN Some(n) ELSE None

\* a serial that must be present: a missing one matches no display
SerialOrZero_Required(prop) ==
    IF prop.t = "num" /\ IsSome(ToI32(prop.n)) THEN AsU32(Unwrap(ToI32(prop.n)))
    ELSE <<-1, 0>>

\* find(key).and_then(downcast).and_then(to_i32).map(|x| x as u32).unwrap_or(0)
SerialOrZero(prop) ==
    IF prop.t = "num" /\ IsSome(ToI32(prop.n)) THEN AsU32(Unwrap(ToI32(prop.n)))
    ELSE U32(0)

(***************************************************************************)
(* Transport A matching.                                                   *)
(***************************************************************************)
\* framebuffer_port_matches_display: a port is [bus_count, has_info, vendor,
\* product, serial], the last three being dictionary values
framebuffer_port_matches_display(port, display) ==
    IF port.bus_count = 0 THEN FALSE
    ELSE IF ~port.has_info THEN FALSE
    ELSE IF ~IsSome(RequiredU32(port.vendor)) THEN FALSE
    ELSE IF ~IsSome(RequiredU32(port.product)) THEN FALSE
    ELSE /\ Unwrap(RequiredU32(port.vendor)) = display.vendor
         /\ Unwrap(RequiredU32(port.product)) = display.model
         /\ SerialOrZero(port.serial) = display.serial

\* a matcher that looks at the ports of a builtin display too
BuiltinExcludedA_Never(display) == FALSE

\* if display.is_builtin() { return None; }
BuiltinExcludedA(display) == display.builtin

\* the result of a Transport A match: port is the index of the port returned
\* (0: none), inspected the number of ports the iterator produced,
\* iter_requested whether IoIterator::for_services was called
MatchA(found, port, inspected, iter_requested) ==
    [found |-> found, port |-> port, inspected |-> inspected,
     iter_requested |-> iter_requested]

\* Iterator::find: the first port, in the iterator's order, that matches
FindPort(ports, display) ==
    LET hits == {i \in 1..Len(ports) : framebuffer_port_matches_display(ports[i], display)}
    IN  IF hits = {} THEN MatchA(FALSE, 0, Len(ports), TRUE)
        ELSE LET first == CHOOSE i \in hits : \A j \in hits : i <= j
             IN  MatchA(TRUE, first, first, TRUE)

\* get_io_framebuffer_port
get_io_framebuffer_port(display, w) ==
    IF BuiltinExcludedA(display) THEN MatchA(FALSE, 0, 0, FALSE)
    ELSE IF ~w.ports_ok THEN MatchA(FALSE, 0, 0, TRUE)
    ELSE FindPort(w.ports, display)

(***************************************************************************)
(* Transport B matching.                                                   *)
(***************************************************************************)
\* the result of a Transport B match: entry is the index of the registry
\* entry the service was made from (0: none), inspected the number of entries
\* the iterator produced, iter_requested whether IoIterator::root was called
MatchB(kind, entry, chipaddr, code, inspected, iter_requested) ==
    [kind |-> kind, entry |-> entry, chip |-> chipaddr, code |-> code,
     inspected |-> inspected, iter_requested |-> iter_requested]

\* an address that is the standard one whatever the parent is
i2c_address_Standard(entry) == I2C_ADDRESS_DDC_CI

\* i2c_address: the parent lookup may fail, the parent may have no
\* EPICProviderClass, or a class other than AppleDCPMCDP29XX
i2c_address(entry) ==
    IF ~entry.parent_ok THEN I2C_ADDRESS_DDC_CI
    ELSE IF entry.parent_class = "" THEN I2C_ADDRESS_DDC_CI
    ELSE IF entry.parent_class = "AppleDCPMCDP29XX" THEN I2C_ADDRESS_DDC_CI_MDCP29XX
    ELSE I2C_ADDRESS_DDC_CI

\* the test of the inner loop on an entry whose name was read
IsExternalProxy(entry) ==
    /\ entry.name = "DCPAVServiceProxy"
    /\ entry.location # ""
    /\ entry.av_ok
    /\ entry.location = "External"

\* get_service_registry_entry_name(..)?: IORegistryEntryGetName failed
NameLookupFails(entry) == entry.name_code # kIOReturnSuccess

\* get_service_registry_entry_path(..) is Ok and equals the display's location
PathIs(entry, location) == entry.path_ok /\ entry.path = location

\* if display.is_builtin() { return Err(ServiceNotFound); }
BuiltinExcludedB(display) == display.builtin

\* the two nested loops over the one iterator: the outer one stops at the
\* first entry whose path is the location, the inner one goes on from there
\* and ends at the first entry whose name cannot be read or that is an
\* external proxy; when the iterator runs out both loops end
WalkRegistry(entries, location) ==
    LET n == Len(entries)
        locs == {i \in 1..n : PathIs(entries[i], location)}
    IN  IF locs = {} THEN MatchB("ServiceNotFound", 0, 0, 0, n, TRUE)
        ELSE LET at == CHOOSE i \in locs : \A j \in locs : i <= j
                 stops == {j \in (at + 1)..n :
                              NameLookupFails(entries[j]) \/ IsExternalProxy(entries[j])}
             IN  IF stops = {} THEN MatchB("ServiceNotFound", 0, 0, 0, n, TRUE)
                 ELSE LET j == CHOOSE k \in stops : \A l \in stops : k <= l
                      IN  IF NameLookupFails(entries[j])
                          THEN MatchB("Io", 0, 0, entries[j].name_code, j, TRUE)
                          ELSE MatchB("Ok", j, i2c_address(entries[j]), 0, j, TRUE)

\* IoIterator::root()?: the error of a failed IORegistryCreateIterator
RootError(w) == MatchB("Io", 0, 0, w.root_code, 0, TRUE)

\* get_display_av_service: a display's location is "" when its info
\* dictionary has no IODisplayLocation string
get_display_av_service(display, w) ==
    IF BuiltinExcludedB(display) THEN MatchB("ServiceNotFound", 0, 0, 0, 0, FALSE)
    ELSE IF display.location = "" THEN MatchB("DisplayLocationNotFound", 0, 0, 0, 0, FALSE)
    ELSE IF w.root_code # kIOReturnSuccess THEN RootError(w)
    ELSE WalkRegistry(w.registry, display.location)

(***************************************************************************)
(* The native handles of a run of matching: for each kind, how many the    *)
(* run obtained and how many it released (IOObjectRelease by the Drop of   *)
(* IoObject and IoIterator, CFRelease for an AV service), and how many it  *)
(* returned to its caller.                                                 *)
(***************************************************************************)
Handles(it, it_rel, en, en_rel, sv, sv_rel, pa, pa_rel, ret) ==
    [iterators |-> it, iterators_released |-> it_rel,
     entries |-> en, entries_released |-> en_rel,
     services_created |-> sv, services_released |-> sv_rel,
     parents |-> pa, parents_released |-> pa_rel,
     returned |-> ret]

NoHandles == Handles(0, 0, 0, 0, 0, 0, 0, 0, 0)

\* get_io_framebuffer_port: the iterator is a temporary dropped at the end of
\* the statement; find drops every port it passes over and returns the match
HandlesA(display, w) ==
    LET r == get_io_framebuffer_port(display, w)
        iters == IF r.iter_requested /\ w.ports_ok THEN 1 ELSE 0
        kept == IF r.found THEN 1 ELSE 0
    IN  Handles(iters, iters, r.inspected, r.inspected - kept, 0, 0, 0, 0, kept)

\* the index of the first entry whose path is the location, or 0
LocationIndex(entries, location) ==
    LET locs == {i \in 1..Len(entries) : PathIs(entries[i], location)}
    IN  IF locs = {} THEN 0 ELSE CHOOSE i \in locs : \A j \in locs : i <= j

\* get_display_av_service: iter and every service are dropped when their
\* scope ends (the matched service at the end of i2c_address);
\* IOAVServiceCreateWithService is called for every entry of the inner loop
\* named DCPAVServiceProxy, and the service is a raw reference that is either
\* returned or forgotten; i2c_address keeps the parent entry in a raw
\* io_registry_entry_t
HandlesB(display, w) ==
    LET r == get_display_av_service(display, w)
        iters == IF r.iter_requested /\ w.root_code = kIOReturnSuccess THEN 1 ELSE 0
        at == LocationIndex(w.registry, display.location)
        created == IF iters = 0 \/ at = 0 THEN {}
                   ELSE {k \in (at + 1)..r.inspected :
                            /\ ~NameLookupFails(w.registry[k])
                            /\ w.registry[k].name = "DCPAVServiceProxy"
                            /\ w.registry[k].av_ok}
        parent == IF r.kind = "Ok" /\ w.registry[r.entry].parent_ok THEN 1 ELSE 0
    IN  Handles(iters, iters, r.inspected, r.inspected,
                Cardinality(created), 0, parent, 0,
                IF r.kind = "Ok" THEN 1 ELSE 0)

(***************************************************************************)
(* Monitor::enumerate.                                                     *)
(***************************************************************************)
RECURSIVE FilterMap(_, _, _)
\* the filter_map of enumerate over the displays from index i on: a Monitor
\* for each display whose framebuffer port is found
FilterMap(displays, w, i) ==
    IF i > Len(displays) THEN <<>>
    ELSE LET r == get_io_framebuffer_port(displays[i], w)
             rest == FilterMap(displays, w, i + 1)
         IN  IF r.found
             THEN <<[display |-> i, backend |-> "A", handle |-> r.port]>> \o rest
             ELSE rest

\* Monitor::enumerate: CGDisplay::active_displays() may fail
enumerate(w) ==
    IF w.cg_error # 0 THEN [kind |-> "CoreGraphics", monitors |-> <<>>]
    ELSE [kind |-> "Ok", monitors |-> FilterMap(w.displays, w, 1)]

(***************************************************************************)
(* The worlds the matchers and enumerate run in.                           *)
(***************************************************************************)
SeqsUpTo(S, n) == UNION { [1..k -> S] : k \in 0..n }

Display(vendor, model, serial, builtin, location) ==
    [vendor |-> vendor, model |-> model, serial |-> serial, builtin |-> builtin,
     location |-> location]

Port(bus_count_, has_info, vendor, product, serial) ==
    [bus_count |-> bus_count_, has_info |-> has_info, vendor |-> vendor,
     product |-> product, serial |-> serial]

\* a registry entry as the walk meets it; depth is its depth in the service
\* plane, the children of the root being at depth 1
Entry(path_ok, path, name_code, name, av_ok, location, parent_ok, parent_class, depth) ==
    [path_ok |-> path_ok, path |-> path, name_code |-> name_code, name |-> name,
     av_ok |-> av_ok, location |-> location, parent_ok |-> parent_ok,
     parent_class |-> parent_class, depth |-> depth]

World(displays, ports_ok, ports, root_code, registry, cg_error) ==
    [displays |-> displays, ports_ok |-> ports_ok, ports |-> ports,
     root_code |-> root_code, registry |-> registry, cg_error |-> cg_error]

\* serial numbers of displays: none, a small one, the largest u32
DisplaySerials == {U32(0), U32(7), <<65535, 65535>>}

\* the ports: with and without buses; without a dictionary, without a vendor,
\* with a vendor number wider than 32 bits, of the display's vendor and
\* product with a serial of 0, 7, -1, 2^31 or of another type, of another
\* product
PortSet ==
    { Port(2, i[1], i[2], i[3], i[4]) :
        i \in { <<FALSE, Absent, Absent, Absent>>,
                <<TRUE, Absent, Num(0, 1), Absent>>,
                <<TRUE, Num(65536, 1), Num(0, 1), Absent>>,
                <<TRUE, Num(0, 1), Num(0, 1), Num(0, 0)>>,
                <<TRUE, Num(0, 1), Num(0, 1), Num(0, 7)>>,
                <<TRUE, Num(0, 1), Num(0, 1), Num(-1, 65535)>>,
                <<TRUE, Num(0, 1), Num(0, 1), Num(32768, 0)>>,
                <<TRUE, Num(0, 1), Num(0, 1), Other>>,
                <<TRUE, Num(0, 1), Num(0, 2), Num(0, 0)>> } }
    \cup { Port(0, TRUE, Num(0, 1), Num(0, 1), Num(0, 0)),
           Port(0, TRUE, Num(0, 1), Num(0, 1), Num(0, 7)) }

\* the registry entries: the display's own entry, an unrelated one, external
\* proxies under the bridge chip and under another parent, an external proxy
\* right under the root, an external proxy whose parent is not found, proxies
\* that are not external or that give no AV service, an entry whose name
\* cannot be read, an entry whose path cannot be read
EntrySet ==
    { Entry(TRUE, "locA", 0, "disp0", FALSE, "", TRUE, "", 1),
      Entry(TRUE, "other", 0, "other", FALSE, "", TRUE, "", 1),
      Entry(TRUE, "proxy", 0, "DCPAVServiceProxy", TRUE, "External", TRUE, "AppleDCPMCDP29XX", 2),
      Entry(TRUE, "proxy", 0, "DCPAVServiceProxy", TRUE, "External", TRUE, "AppleDCPDPTXController", 2),
      Entry(TRUE, "proxy", 0, "DCPAVServiceProxy", TRUE, "External", TRUE, "", 1),
      Entry(TRUE, "proxy", 0, "DCPAVServiceProxy", TRUE, "External", FALSE, "", 2),
      Entry(TRUE, "proxy", 0, "DCPAVServiceProxy", TRUE, "Embedded", TRUE, "", 2),
      Entry(TRUE, "proxy", 0, "DCPAVServiceProxy", FALSE, "External", FALSE, "", 2),
      Entry(TRUE, "proxy", 0, "DCPAVServiceProxy", TRUE, "", TRUE, "", 2),
      Entry(TRUE, "other", 1, "", FALSE, "", TRUE, "", 2),
      Entry(FALSE, "", 0, "other", FALSE, "", TRUE, "", 1) }

\* the walks of a registry: the first entry is a child of the root, and an
\* entry is at most one level below the entry before it
Registries ==
    { r \in SeqsUpTo(EntrySet, MaxEntries) :
        /\ r # <<>> => r[1].depth = 1
        /\ \A k \in 2..Len(r) : r[k].depth <= r[k - 1].depth + 1 }

\* one display and the framebuffer ports
WorldsA ==
    { World(<<Display(U32(1), U32(1), s, b, "locA")>>, ok, ports, 0, <<>>, 0) :
        s \in DisplaySerials, b \in BOOLEAN, ok \in BOOLEAN,
        ports \in SeqsUpTo(PortSet, MaxPorts) }

\* one display (external or builtin, with or without a location) and the
\* registry, whose root iterator is or is not obtained
WorldsB ==
    { World(<<Display(U32(1), U32(1), U32(0), c[1], c[2])>>, TRUE, <<>>, c[3], registry, 0) :
        c \in { <<FALSE, "locA", 0>>, <<FALSE, "locA", 1>>, <<FALSE, "", 0>>,
                <<TRUE, "locA", 0>> },
        registry \in Registries }

\* several displays, a few ports and a few registries
WorldsE ==
    { World(displays, TRUE, ports, 0, registry, cg) :
        displays \in SeqsUpTo({ Display(U32(1), U32(1), U32(0), FALSE, "locA"),
                                Display(U32(1), U32(1), U32(7), FALSE, "locB"),
                                Display(U32(1), U32(1), U32(0), TRUE, "locA") }, MaxDisplays),
        ports \in SeqsUpTo({ Port(2, TRUE, Num(0, 1), Num(0, 1), Absent),
                             Port(2, TRUE, Num(0, 1), Num(0, 1), Num(0, 7)),
                             Port(0, TRUE, Num(0, 1), Num(0, 1), Num(0, 7)) }, 2),
        registry \in { <<>>,
                       <<Entry(TRUE, "locA", 0, "disp0", FALSE, "", TRUE, "", 1),
                         Entry(TRUE, "proxy", 0, "DCPAVServiceProxy", TRUE, "External", TRUE, "", 2)>>,
                       <<Entry(TRUE, "locB", 0, "disp1", FALSE, "", TRUE, "", 1),
                         Entry(TRUE, "other", 1, "", FALSE, "", TRUE, "", 2)>> },
        cg \in {0, 1} }

Worlds == WorldsA \cup WorldsB \cup WorldsE

NoMatchA == MatchA(FALSE, 0, 0, FALSE)
NoMatchB == MatchB("None", 0, 0, 0, 0, FALSE)
NotEnumerated == [kind |-> "None", monitors |-> <<>>]
EmptyWorld == World(<<>>, TRUE, <<>>, 0, <<>>, 0)

\* get_io_framebuffer_port is called for a display
MatchPortA ==
    /\ UNCHANGED matchOthers
    /\ mpc = "start"
    /\ \E i \in 1..Len(world.displays) :
        /\ target' = i
        /\ matchA' = get_io_framebuffer_port(world.displays[i], world)
        /\ handles' = HandlesA(world.displays[i], world)
    /\ mpc' = "matchedA"
    /\ UNCHANGED <<world, matchB, enumerated>>

\* get_display_av_service is called for a display
MatchServiceB ==
    /\ UNCHANGED matchOthers
    /\ mpc = "start"
    /\ \E i \in 1..Len(world.displays) :
        /\ target' = i
        /\ matchB' = get_display_av_service(world.displays[i], world)
        /\ handles' = HandlesB(world.displays[i], world)
    /\ mpc' = "matchedB"
    /\ UNCHANGED <<world, matchA, enumerated>>

\* Monitor::enumerate is called
Enumerate ==
    /\ UNCHANGED matchOthers
    /\ mpc = "start"
    /\ enumerated' = enumerate(world)
    /\ mpc' = "enumerated"
    /\ UNCHANGED <<world, target, matchA, matchB, handles>>

MatchNext ==
    \/ MatchPortA
    \/ MatchServiceB
    \/ Enumerate

(***************************************************************************)
(* The accessors Monitor::product_name and Monitor::description.  A string *)
(* is the sequence of its characters.                                      *)
(***************************************************************************)
\* bound: the characters of a product name
MaxNameLen == 2

HexChars == <<"0", "1", "2", "3", "4", "5", "6", "7", "8", "9", "a", "b", "c", "d", "e", "f">>

\* the four hexadecimal digits of a 16-bit limb
Hex4(n) ==
    <<HexChars[((n \div 4096) % 16) + 1], HexChars[((n \div 256) % 16) + 1],
      HexChars[((n \div 16) % 16) + 1], HexChars[(n % 16) + 1]>>

\* {:x} of a u32: its hexadecimal digits, without leading zeros, one at least
HexNoPad(x) ==
    LET full == Hex4(x[1]) \o Hex4(x[2])
        nonzero == {k \in 1..8 : full[k] # "0"}
        first == IF nonzero = {} THEN 8 ELSE CHOOSE k \in nonzero : \A l \in nonzero : k <= l
    IN  [k \in 1..(9 - first) |-> full[first + k - 1]]

\* a format that does not pad: {:x}
Format04x_NoPad(x) == HexNoPad(x)

\* {:04x} of a u32: the digits, padded on the left with zeros to a width of
\* four when they are fewer
Format04x(x) ==
    LET d == HexNoPad(x)
        pad == IF Len(d) >= 4 THEN 0 ELSE 4 - Len(d)
    IN  [k \in 1..(pad + Len(d)) |-> IF k <= pad THEN "0" ELSE d[k - pad]]

\* the DisplayProductName value of an info dictionary: missing, of another
\* type, or a dictionary whose values are the localized names
NoNames == [t |-> "absent", values |-> <<>>]
NotADictionary == [t |-> "other", values |-> <<>>]
NamesDict(values) == [t |-> "dict", values |-> values]

\* the framebuffer port of a Monitor as the accessors see it
FrameBuffer(has_info, names) == [has_info |-> has_info, names |-> names]

\* Monitor { monitor: CGDisplay, frame_buffer: IoObject }
MonitorOf(vendor, model, frame_buffer) ==
    [vendor |-> vendor, model |-> model, frame_buffer |-> frame_buffer]

\* Monitor::product_name
product_name(mon) ==
    IF ~mon.frame_buffer.has_info THEN None
    ELSE IF mon.frame_buffer.names.t # "dict" THEN None
    ELSE IF mon.frame_buffer.names.values = <<>> THEN None
    ELSE Some(mon.frame_buffer.names.values[1])

\* Monitor::description
description(mon) ==
    IF IsSome(product_name(mon)) THEN Unwrap(product_name(mon))
    ELSE Format04x(mon.vendor) \o <<":">> \o Format04x(mon.model)

\* vendor and model numbers: 0, small ones, the largest of 16 bits, the first
\* of 17 bits, kDisplayVendorIDUnknown ('unkn'), the largest u32
DisplayNumbers ==
    { U32(0), U32(1), U32(4268), U32(65535), <<1, 0>>, <<30062, 27502>>, <<65535, 65535>> }

\* product names: the strings of up to MaxNameLen characters
ProductNames == SeqsUpTo({"D", "e"}, MaxNameLen)

FrameBuffers ==
    { FrameBuffer(FALSE, NoNames), FrameBuffer(TRUE, NoNames),
      FrameBuffer(TRUE, NotADictionary), FrameBuffer(TRUE, NamesDict(<<>>)) }
    \cup { FrameBuffer(TRUE, NamesDict(<<n>>)) : n \in ProductNames }
    \cup { FrameBuffer(TRUE, NamesDict(<<<<"D">>, <<"e", "e">>>>)) }

Monitors ==
    { MonitorOf(v, m, fb) : v \in DisplayNumbers, m \in DisplayNumbers, fb \in FrameBuffers }

NoMonitor == MonitorOf(U32(0), U32(0), FrameBuffer(FALSE, NoNames))

\* description() is called on a Monitor
Describe ==
    /\ UNCHANGED describeOthers
    /\ dpc = "start"
    /\ \E mon \in Monitors :
        /\ monitor' = mon
        /\ described' = description(mon)
    /\ dpc' = "described"

DescribeNext == Describe

(***************************************************************************)
(* execute of intel.rs: the request is built for the caller's buffers, sent *)
(* with send_request, and a slice is returned.                             *)
(***************************************************************************)
\* bound: the length of the caller's out buffer
MaxOutLen == 4

\* the request execute fills in for the caller's request_data and out
IntelRequest(chipaddr, data, outbuf, supported) ==
    [ sendAddress          |-> chipaddr * 2,
      sendTransactionType  |-> kIOI2CSimpleTransactionType,
      sendBytes            |-> Len(data),
      replyTransactionType |->
          IF outbuf = <<>> THEN kIOI2CNoTransactionType
          ELSE IF IsSome(supported) THEN Unwrap(supported) ELSE kIOI2CNoTransactionType,
      replyAddress         |-> chipaddr * 2 + 1,
      replySubAddress      |-> SUB_ADDRESS_DDC_CI,
      replyBytes           |-> Len(outbuf) ]

\* if request.replyTransactionType != kIOI2CNoTransactionType { Ok(&mut [0u8; 0]) }
\* else { Ok(out) }
IntelReturn(replyTransactionType, outbuf) ==
    IF replyTransactionType # kIOI2CNoTransactionType
    THEN [kind |-> "Ok", data |-> <<>>]
    ELSE [kind |-> "Ok", data |-> outbuf]

\* the bytes a device writes for a reply of n bytes
DeviceReply(n, s) == [k \in 1..n |-> (s * 61 + k * 11 + 1) % 256]

\* execute up to the call of send_request
IntelExecuteRequest ==
    /\ UNCHANGED intelOthers
    /\ ipc = "start"
    /\ \E n \in 0..MaxOutLen, C \in ChipAddresses, supported \in SupportedTypes,
          P \in { <<1, 96>>, <<3, 16, 0, 50>> } :
        /\ out' = Zeros(n)
        /\ irequest' = IntelRequest(C, Slice(encode_command(P, C), 0, Len(P) + 3),
                                    Zeros(n), supported)
    /\ ipc' = "sending"
    /\ UNCHANGED iresult

\* send_request(service, &mut request)? fails
IntelTransportFails ==
    /\ UNCHANGED intelOthers
    /\ ipc = "sending"
    /\ \E code \in ErrCodes : iresult' = [kind |-> "Io", data |-> <<code>>]
    /\ ipc' = "done"
    /\ UNCHANGED <<out, irequest>>

\* send_request succeeds: with a reply transaction the device's bytes are in
\* the reply buffer, without one nothing is written
IntelTransportReplies ==
    /\ UNCHANGED intelOthers
    /\ ipc = "sending"
    /\ IF irequest.replyTransactionType = kIOI2CNoTransactionType
       THEN UNCHANGED out
       ELSE \E s \in 0..MaxSeed : out' = DeviceReply(irequest.replyBytes, s)
    /\ ipc' = "replied"
    /\ UNCHANGED <<irequest, iresult>>

\* the end of execute
IntelExecuteReturn ==
    /\ UNCHANGED intelOthers
    /\ ipc = "replied"
    /\ iresult' = IntelReturn(irequest.replyTransactionType, out)
    /\ ipc' = "done"
    /\ UNCHANGED <<out, irequest>>

IntelNext ==
    \/ IntelExecuteRequest
    \/ IntelTransportFails
    \/ IntelTransportReplies
    \/ IntelExecuteReturn

(***************************************************************************)
(* get_supported_transaction_type (the same in monitor.rs and intel.rs).   *)
(***************************************************************************)
\* bound: the I2C-interface services of the host
MaxServices == 3

\* bit k of the IOI2CTransactionTypes number n: (1 << k) & n != 0
Advertises(prop, k) == prop.t = "num" /\ Bit(prop.n[2], k) = 1

\* an I2C-interface service: whether IORegistryEntryCreateCFProperties
\* succeeds on it, and its IOI2CTransactionTypes value
Service(props_ok, types) == [props_ok |-> props_ok, types |-> types]

\* the services found: iter_ok is whether for_service_names gave an iterator
Services(iter_ok, list) == [iter_ok |-> iter_ok, list |-> list]
NoServices == Services(TRUE, <<>>)

\* The loop returns at the first service whose properties are read and that
\* either has no IOI2CTransactionTypes number (the ? returns None) or
\* advertises one of the two types; a service whose properties are not read,
\* or that advertises neither type, is passed over.
get_supported_transaction_type(svc) ==
    IF ~svc.iter_ok THEN None
    ELSE LET l == svc.list
             stops == {i \in 1..Len(l) :
                          /\ l[i].props_ok
                          /\ \/ l[i].types.t # "num"
                             \/ Advertises(l[i].types, kIOI2CDDCciReplyTransactionType)
                             \/ Advertises(l[i].types, kIOI2CSimpleTransactionType)}
         IN  IF stops = {} THEN None
             ELSE LET j == CHOOSE k \in stops : \A i \in stops : k <= i
                  IN  IF l[j].types.t # "num" THEN None
                      ELSE IF Advertises(l[j].types, kIOI2CDDCciReplyTransactionType)
                      THEN Some(kIOI2CDDCciReplyTransactionType)
                      ELSE Some(kIOI2CSimpleTransactionType)

\* services that advertise the reply type, the simple type, both, neither,
\* that have no IOI2CTransactionTypes property or one that is not a number,
\* and one whose properties cannot be read
ServiceSet ==
    { Service(TRUE, Num(0, 4)), Service(TRUE, Num(0, 2)), Service(TRUE, Num(0, 7)),
      Service(TRUE, Num(0, 1)), Service(TRUE, Absent), Service(TRUE, Other),
      Service(FALSE, Num(0, 4)) }

\* get_supported_transaction_type is called
Negotiate ==
    /\ UNCHANGED negotiateOthers
    /\ npc = "start"
    /\ \E ok \in BOOLEAN, list \in SeqsUpTo(ServiceSet, MaxServices) :
        /\ services' = Services(ok, list)
        /\ negotiated' = get_supported_transaction_type(Services(ok, list))
    /\ npc' = "negotiated"

NegotiateNext == Negotiate

(***************************************************************************)
(* Specifications.                                                         *)
(***************************************************************************)
vars == <<framerVars, sendVars, matchVars, describeVars, intelVars, negotiateVars>>

\* the state before execute, and before send_request, is entered
Init ==
    /\ fpc = "start"
    /\ payload = <<>>
    /\ chip = I2C_ADDRESS_DDC_CI
    /\ command = Command(FALSE, None)
    /\ request = ZeroedRequest
    /\ request_data = Zeros(RequestDataLen)
    /\ reply_data = Zeros(ReplyDataLen)
    /\ echoed = FALSE
    /\ corrupt_at = -1
    /\ fresult = NoResult
    /\ spc = "start"
    /\ bus_count = 0
    /\ bus = 0
    /\ result = InitialResult
    /\ sresult = NoResult
    /\ iface_held = 0
    /\ conn_open = 0
    /\ attempts = <<>>
    /\ acquired = <<>>
    /\ last_error = NoError
    /\ last_conn_error = NoError
    /\ succeeded_bus = -1
    /\ submitted = 0
    /\ completed = 0
    /\ opened = 0
    /\ closed = 0
    /\ mpc = "start"
    /\ world = EmptyWorld
    /\ target = 0
    /\ matchA = NoMatchA
    /\ matchB = NoMatchB
    /\ enumerated = NotEnumerated
    /\ handles = NoHandles
    /\ dpc = "start"
    /\ monitor = NoMonitor
    /\ described = <<>>
    /\ ipc = "start"
    /\ out = <<>>
    /\ irequest = ZeroedRequest
    /\ iresult = NoResult
    /\ npc = "start"
    /\ services = NoServices
    /\ negotiated = None

\* the state before a matcher or enumerate is called, in any world
InitMatch ==
    /\ fpc = "start"
    /\ payload = <<>>
    /\ chip = I2C_ADDRESS_DDC_CI
    /\ command = Command(FALSE, None)
    /\ request = ZeroedRequest
    /\ request_data = Zeros(RequestDataLen)
    /\ reply_data = Zeros(ReplyDataLen)
    /\ echoed = FALSE
    /\ corrupt_at = -1
    /\ fresult = NoResult
    /\ spc = "start"
    /\ bus_count = 0
    /\ bus = 0
    /\ result = InitialResult
    /\ sresult = NoResult
    /\ iface_held = 0
    /\ conn_open = 0
    /\ attempts = <<>>
    /\ acquired = <<>>
    /\ last_error = NoError
    /\ last_conn_error = NoError
    /\ succeeded_bus = -1
    /\ submitted = 0
    /\ completed = 0
    /\ opened = 0
    /\ closed = 0
    /\ mpc = "start"
    /\ world \in Worlds
    /\ target = 0
    /\ matchA = NoMatchA
    /\ matchB = NoMatchB
    /\ enumerated = NotEnumerated
    /\ handles = NoHandles
    /\ dpc = "start"
    /\ monitor = NoMonitor
    /\ described = <<>>
    /\ ipc = "start"
    /\ out = <<>>
    /\ irequest = ZeroedRequest
    /\ iresult = NoResult
    /\ npc = "start"
    /\ services = NoServices
    /\ negotiated = None

\* execute and its framer over a synthetic transport
SpecFramer == Init /\ [][FramerNext]_vars
\* one call of send_request on a port
SpecSend == Init /\ [][SendNext]_vars
\* one call of execute with its bus loop
SpecExecute == Init /\ [][ExecuteNext]_vars
\* one call of a matcher, or of enumerate, in a world
SpecMatch == InitMatch /\ [][MatchNext]_vars
\* one call of the execute of intel.rs
SpecIntel == Init /\ [][IntelNext]_vars
\* one call of get_supported_transaction_type
SpecNegotiate == Init /\ [][NegotiateNext]_vars
\* one call of description() on a Monitor
SpecDescribe == Init /\ [][DescribeNext]_vars

(***************************************************************************)
(* Claims about the framer (checked under SpecFramer).                     *)
(***************************************************************************)
\* execute has decoded a reply the device wrote
Decoded == fpc = "done" /\ fresult.kind # "Io"
           /\ request.replyTransactionType # kIOI2CNoTransactionType
\* the declared length of the reply in the buffer
DeclaredLength == BitAnd(At(reply_data, 1), 127)
\* the echo of the request as it was before any byte changed
CleanEcho == EchoReply(request, request_data)
CleanEchoValid ==
    Decode(request.replyTransactionType, request.replyAddress, CleanEcho).kind = "Ok"

\* C1: for every payload P of 0..36 bytes and every chip address, decoding the
\* echo of encode(P) in the reply buffer execute allocates returns exactly P,
\* with no InvalidLength and no InvalidChecksum.
C1_RoundTrip ==
    (Decoded /\ echoed /\ corrupt_at = -1)
        => fresult = [kind |-> "Ok", data |-> payload]

\* C2: decoding fails with InvalidLength exactly when the declared length + 2
\* is at least the length of the reply buffer; a declared length of buffer
\* length - 3 passes the check and, the checksum being right, decodes.
C2_InvalidLengthIff ==
    Decoded =>
        /\ (fresult.kind = "InvalidLength") <=> (DeclaredLength + 2 >= Len(reply_data))
        /\ ( /\ DeclaredLength + 2 = Len(reply_data) - 1
             /\ At(reply_data, 2 + DeclaredLength)
                    = checksum(<<AsU8(chip * 2 + 1), SUB_ADDRESS_DDC_CI>>
                               \o Slice(reply_data, 1, 2 + DeclaredLength)) )
           => fresult = [kind |-> "Ok", data |-> Slice(reply_data, 2, 2 + DeclaredLength)]

\* a reply whose declared length is the largest the buffer admits decoded
C2_Witness ==
    Decoded /\ DeclaredLength + 2 = Len(reply_data) - 1 /\ fresult.kind = "Ok"

\* C3 as stated: a change of any one byte of a valid reply packet makes the
\* decode fail with InvalidChecksum.
C3_AnyByteChange ==
    (Decoded /\ echoed /\ corrupt_at # -1 /\ CleanEchoValid)
        => fresult.kind = "InvalidChecksum"

\* C3 as amended: a change of one payload byte or of the checksum byte of a
\* valid reply packet (positions 2 .. 2 + length) makes the decode fail with
\* InvalidChecksum.
C3_PayloadOrChecksumChange ==
    (Decoded /\ echoed /\ CleanEchoValid
        /\ corrupt_at >= 2 /\ corrupt_at <= 2 + Len(payload))
        => fresult.kind = "InvalidChecksum"

\* the checksum byte, and a payload byte, of a valid packet changed and the
\* decode ended
C3_Witness ==
    /\ Decoded /\ echoed /\ CleanEchoValid
    /\ Len(payload) > 0
    /\ corrupt_at = 2 + Len(payload)
    /\ fresult.kind = "InvalidChecksum"

\* C4: the packet of a payload of L bytes is the L + 3 bytes
\* [0x51, 0x80 | L, payload, checksum], the checksum being the XOR of chip << 1
\* and of the first L + 2 bytes, and L + 3 bytes are submitted; for [0x01, 0x60]
\* and chip 0x37 the packet is [0x51, 0x82, 0x01, 0x60, 0xDC].
C4_PacketLayout ==
    fpc # "start" =>
        LET L == Len(payload)
        IN  /\ L <= 36
            /\ request.sendBytes = L + 3
            /\ At(request_data, 0) = 81
            /\ At(request_data, 1) = 128 + L
            /\ Slice(request_data, 2, 2 + L) = payload
            /\ At(request_data, 2 + L)
                   = checksum(<<(chip * 2) % 256>> \o Slice(request_data, 0, 2 + L))
            /\ (payload = <<1, 96>> /\ chip = 55)
                   => Slice(request_data, 0, request.sendBytes) = <<81, 130, 1, 96, 220>>

\* "get VCP feature 0x60" was encoded for chip 0x37
C4_Witness ==
    fpc = "sending" /\ payload = <<1, 96>> /\ chip = 55 /\ request.sendBytes = 5

\* C20: whatever the reply buffer holds, the decoder reads only positions
\* inside it: the length check comes first and rules out a read of the
\* checksum position 2 + len, or of the range 2 .. 2 + len, past the end, so
\* decoding ends in a payload, InvalidLength or InvalidChecksum, never in an
\* out-of-range access.
C20_DecoderStaysInBuffer ==
    /\ fpc = "done" =>
          fresult.kind \in {"Ok", "InvalidLength", "InvalidChecksum", "Io"}
    /\ (Decoded /\ fresult.kind # "InvalidLength") =>
          /\ 2 + DeclaredLength < Len(reply_data)
          /\ 1 < Len(reply_data)
    /\ (Decoded /\ fresult.kind = "Ok") => Len(fresult.data) = DeclaredLength

\* a reply the device wrote declares 34 bytes, which would put the checksum
\* right past the end of the buffer, and was rejected
C20_Witness ==
    /\ Decoded /\ ~echoed
    /\ DeclaredLength = 34
    /\ fresult.kind = "InvalidLength"

\* C14: the reply transaction type of the submitted request is 'none' only
\* if the command defines no reply; for a command that expects a reply the
\* request carries the reply or the simple type, and execute decodes an empty
\* reply only for a command that defines no reply.
C14_NoReplyTypeOnlyWithoutReply ==
    fpc # "start" =>
        /\ request.replyTransactionType = kIOI2CNoTransactionType => ~command.expects
        /\ command.expects =>
              request.replyTransactionType
                  \in {kIOI2CDDCciReplyTransactionType, kIOI2CSimpleTransactionType}
        /\ ( /\ fpc = "done" /\ fresult.kind # "Io"
             /\ request.replyTransactionType = kIOI2CNoTransactionType
             /\ fresult = [kind |-> "Ok", data |-> <<>>] )
           => ~command.expects

(***************************************************************************)
(* Claims about send_request (checked under SpecSend).                     *)
(***************************************************************************)
\* send_request has returned after querying the bus count successfully
Returned == spc = "returned" /\ (last_error = NoError \/ last_error[1] # "count")

\* C5: the bus interfaces are acquired in ascending order from 0, none skipped
\* or repeated, and acquisition stops right after the first bus whose
\* transaction succeeds, whose result is returned; with 3 buses, 0 and 1
\* failing to acquire and 2 succeeding, the attempts are exactly 0, 1, 2 and the
\* call returns the success of bus 2.
C5_AscendingFirstSuccess ==
    /\ \A k \in 1..Len(attempts) : attempts[k] = k - 1
    /\ Len(attempts) <= bus_count
    /\ succeeded_bus # -1 =>
          /\ Len(attempts) = succeeded_bus + 1
          /\ spc = "returned" => sresult = Ok
    /\ (spc = "returned" /\ succeeded_bus = -1 /\ sresult.kind # "Ok"
            /\ (last_error = NoError \/ last_error[1] # "count"))
          => Len(attempts) = bus_count
    /\ (spc = "returned" /\ sresult.kind = "Ok") => succeeded_bus = Len(attempts) - 1
    /\ (spc = "returned" /\ bus_count = 3 /\ Len(acquired) >= 3
            /\ ~acquired[1] /\ ~acquired[2] /\ acquired[3] /\ succeeded_bus = 2)
          => (attempts = <<0, 1, 2>> /\ sresult = Ok)

\* the scenario: three buses, the first two not acquired, the third succeeds
C5_Witness ==
    /\ spc = "returned" /\ bus_count = 3
    /\ acquired = <<FALSE, FALSE, TRUE>>
    /\ succeeded_bus = 2 /\ attempts = <<0, 1, 2>> /\ sresult = Ok

\* C6 as stated: when no bus succeeds the error returned is the last error
\* met in bus order, be it from acquiring the interface, opening the
\* connection or the transaction; with zero buses it is Io(KERN_FAILURE).
C6_LastErrorOfAnyStage ==
    (Returned /\ succeeded_bus = -1) =>
        /\ bus_count = 0 => sresult = Io(KERN_FAILURE)
        /\ last_error # NoError => sresult = Io(last_error[2])

\* C6 as amended: when no bus succeeds the error returned is that of the last
\* connection open or transaction that failed, in bus order; failures to
\* acquire an interface are not recorded, and when no connection was attempted
\* at all (zero buses, or no interface acquired) it is Io(KERN_FAILURE).
C6_LastConnectionError ==
    (Returned /\ succeeded_bus = -1) =>
        /\ last_conn_error # NoError => sresult = Io(last_conn_error[2])
        /\ last_conn_error = NoError => sresult = Io(KERN_FAILURE)
        /\ bus_count = 0 => sresult = Io(KERN_FAILURE)

\* two connections failed with different codes, then an acquisition failed
C6_Witness ==
    /\ Returned /\ succeeded_bus = -1 /\ bus_count = 3
    /\ acquired = <<TRUE, TRUE, FALSE>>
    /\ last_error[1] = "acquire"
    /\ last_conn_error # NoError
    /\ sresult = Io(last_conn_error[2])
    /\ sresult # Io(KERN_FAILURE)
    /\ last_error[2] # last_conn_error[2]

(***************************************************************************)
(* Claims about matching and enumerate (checked under SpecMatch).          *)
(***************************************************************************)
\* the display the matcher was given
Target == world.displays[target]

\* the triple a candidate port's dictionary gives, when it gives one: the
\* vendor and product numbers in 32 bits, and the serial number, 0 when it is
\* missing or does not read as a 32-bit integer
HasTriple(port) == port.has_info /\ port.vendor.t = "num" /\ port.product.t = "num"
TripleOf(port) ==
    << <<port.vendor.n[1] % 65536, port.vendor.n[2]>>,
       <<port.product.n[1] % 65536, port.product.n[2]>>,
       IF port.serial.t = "num" /\ port.serial.n[1] >= -32768 /\ port.serial.n[1] < 32768
       THEN <<port.serial.n[1] % 65536, port.serial.n[2]>>
       ELSE <<0, 0>> >>
TripleEquals(port, display) ==
    HasTriple(port) /\ TripleOf(port) = <<display.vendor, display.model, display.serial>>

\* the candidates whose triple equals the target's, and those of them that
\* report an I2C bus
EqualPorts == {i \in 1..Len(world.ports) : TripleEquals(world.ports[i], Target)}
EqualBusPorts == {i \in EqualPorts : world.ports[i].bus_count > 0}
Least(S) == CHOOSE i \in S : \A j \in S : i <= j

\* Transport A matching ran for an external display and got its port iterator
MatchedExternalA == mpc = "matchedA" /\ ~Target.builtin /\ world.ports_ok

\* C7 as stated: matching returns a match when exactly one candidate's triple
\* equals the target's, none when no candidate's does, takes a missing serial
\* as 0, and returns the first in iteration order when several match.
C7_MatchByTriple ==
    MatchedExternalA =>
        /\ EqualPorts = {} => ~matchA.found
        /\ EqualPorts # {} => (matchA.found /\ matchA.port = Least(EqualPorts))

\* C7 as amended: the same, over the candidates that report at least one I2C
\* bus; a candidate with no bus is passed over whatever its triple.
C7_MatchByTripleAmongBusPorts ==
    MatchedExternalA =>
        /\ EqualBusPorts = {} => (~matchA.found /\ matchA.port = 0)
        /\ EqualBusPorts # {} => (matchA.found /\ matchA.port = Least(EqualBusPorts))
        /\ \A i \in 1..Len(world.ports) :
              ( /\ world.ports[i].bus_count > 0 /\ HasTriple(world.ports[i])
                /\ world.ports[i].serial = Absent
                /\ TripleOf(world.ports[i])[1] = Target.vendor
                /\ TripleOf(world.ports[i])[2] = Target.model
                /\ Target.serial = <<0, 0>>
                /\ \A j \in 1..(i - 1) : j \notin EqualBusPorts )
              => (matchA.found /\ matchA.port = i)

\* a display of serial 0 matched the second port, which has no serial; the
\* first port has the display's triple but no bus
C7_Witness ==
    /\ MatchedExternalA
    /\ Target.serial = <<0, 0>>
    /\ Len(world.ports) = 2
    /\ 1 \in EqualPorts /\ world.ports[1].bus_count = 0
    /\ world.ports[2].serial = Absent
    /\ matchA.found /\ matchA.port = 2

\* the displays, by index, that a backend matches
MatchesA(i) == get_io_framebuffer_port(world.displays[i], world).found
MatchesB(i) == get_display_av_service(world.displays[i], world).kind = "Ok"

\* C8: enumerate returns, in host display order, exactly one Monitor for each
\* display that Transport A matches or, failing that, Transport B matches, and
\* none for a display that matches neither, which never makes it fail.
C8_EnumerateBothBackends ==
    (mpc = "enumerated" /\ world.cg_error = 0) =>
        LET mon == enumerated.monitors
        IN  /\ enumerated.kind = "Ok"
            /\ \A k \in 1..Len(mon), l \in 1..Len(mon) :
                  k < l => mon[k].display < mon[l].display
            /\ {mon[k].display : k \in 1..Len(mon)}
                  = {i \in 1..Len(world.displays) : MatchesA(i) \/ MatchesB(i)}

\* C9: for a builtin display both matchers return no match at once, before
\* any port or registry entry is looked at and whatever the candidates are;
\* enumerate yields no Monitor for a builtin display.
C9_BuiltinNeverMatched ==
    /\ (mpc = "matchedA" /\ Target.builtin)
          => (~matchA.found /\ matchA.port = 0 /\ matchA.inspected = 0
              /\ ~matchA.iter_requested)
    /\ (mpc = "matchedB" /\ Target.builtin)
          => (matchB.kind = "ServiceNotFound" /\ matchB.entry = 0
              /\ matchB.inspected = 0 /\ ~matchB.iter_requested)
    /\ mpc = "enumerated"
          => \A k \in 1..Len(enumerated.monitors) :
                ~world.displays[enumerated.monitors[k].display].builtin

\* Transport A matching ran for a builtin display one of whose candidate
\* ports has its triple and a bus
C9_Witness ==
    /\ mpc = "matchedA" /\ Target.builtin /\ world.ports_ok
    /\ EqualBusPorts # {}
    /\ ~matchA.found

\* C10: Transport B matching returns a service with its chip address or fails
\* with ServiceNotFound or DisplayLocationNotFound, never with another kind
\* of error (stated here for the registries whose root iterator is obtained).
C10_OnlyMatchingErrors ==
    (mpc = "matchedB" /\ world.root_code = 0) =>
        matchB.kind \in {"Ok", "ServiceNotFound", "DisplayLocationNotFound"}

(***************************************************************************)
(* Claims about the accessors (checked under SpecDescribe).                *)
(***************************************************************************)
\* the value a string of one to eight hexadecimal digits denotes, as a pair
\* of limbs
DigitOf(c) == CHOOSE d \in 0..15 : HexChars[d + 1] = c
IsHex(str) == \A k \in 1..Len(str) : \E d \in 0..15 : HexChars[d + 1] = str[k]
HexValue(str) ==
    LET n == Len(str)
        padded == [k \in 1..8 |-> IF k <= 8 - n THEN 0 ELSE DigitOf(str[k - (8 - n)])]
    IN  << padded[1] * 4096 + padded[2] * 256 + padded[3] * 16 + padded[4],
           padded[5] * 4096 + padded[6] * 256 + padded[7] * 16 + padded[8] >>

\* the property store supplies a product name to the Monitor
NameSupplied ==
    /\ monitor.frame_buffer.has_info
    /\ monitor.frame_buffer.names.t = "dict"
    /\ monitor.frame_buffer.names.values # <<>>
SuppliedName == monitor.frame_buffer.names.values[1]

\* str is a hexadecimal field of the number x in at least four digits: four
\* when x is below 0x10000, else as many as x has
IsFieldOf(str, x) ==
    /\ Len(str) >= 4 /\ Len(str) <= 8
    /\ IsHex(str)
    /\ HexValue(str) = x
    /\ Len(str) > 4 => str[1] # "0"
    /\ x[1] = 0 <=> Len(str) = 4

C12_OutReturnedWhenReplyRequested ==
    (ipc = "done" /\ iresult.kind = "Ok") =>
        /\ irequest.replyTransactionType # kIOI2CNoTransactionType
              => (iresult.data = out /\ Len(iresult.data) = irequest.replyBytes)
        /\ iresult.data = <<>>
              => irequest.replyTransactionType = kIOI2CNoTransactionType

(***************************************************************************)
(* Claims about the negotiation (checked under SpecNegotiate).             *)
(***************************************************************************)
\* the services whose properties are read and that advertise transaction type k
Advertisers(k) ==
    {i \in 1..Len(services.list) :
        services.list[i].props_ok /\ Advertises(services.list[i].types, k)}

\* C13: the negotiation returns the reply type whenever at least one service
\* advertises it, otherwise the simple type whenever at least one service
\* advertises it, otherwise none, whatever the order of the services and
\* whatever services lack the property.
C13_BestOfAllServices ==
    (npc = "negotiated" /\ services.iter_ok) =>
        negotiated =
            IF Advertisers(kIOI2CDDCciReplyTransactionType) # {}
            THEN Some(kIOI2CDDCciReplyTransactionType)
            ELSE IF Advertisers(kIOI2CSimpleTransactionType) # {}
            THEN Some(kIOI2CSimpleTransactionType)
            ELSE None

(***************************************************************************)
(* Claims about a whole call of execute (checked under SpecExecute).       *)
(***************************************************************************)
\* C15: within one call of execute at most one transaction completes
\* successfully and no bus is attempted after it; when the reply of that
\* transaction fails validation execute returns InvalidLength or
\* InvalidChecksum without attempting another bus or submitting the request
\* again.
C15_OneTransactionNoRetry ==
    /\ completed <= 1
    /\ completed = 1 =>
          /\ succeeded_bus = attempts[Len(attempts)]
          /\ Len(attempts) = succeeded_bus + 1
          /\ submitted <= Len(attempts)
    /\ (fpc \in {"replied", "done"} /\ fresult.kind # "Io") => completed = 1
    /\ (fpc = "done" /\ fresult.kind \in {"InvalidLength", "InvalidChecksum"}) =>
          /\ completed = 1
          /\ spc = "returned"
          /\ Len(attempts) = succeeded_bus + 1
          /\ submitted <= Len(attempts)

\* the transaction of bus 0 of three succeeded and its reply failed the
\* checksum: execute returned the error with buses 1 and 2 untried
C15_Witness ==
    /\ fpc = "done" /\ fresult.kind = "InvalidChecksum"
    /\ bus_count = 3 /\ attempts = <<0>> /\ completed = 1 /\ submitted = 1

\* C16: each connection that was opened is closed exactly once, whether its
\* transaction succeeded or failed, before the next bus is acquired and before
\* execute returns; at most one connection is open at any time, and after
\* execute returns no connection and no bus-interface handle is held.
C16_ConnectionsClosedOnce ==
    /\ conn_open \in {0, 1}
    /\ iface_held \in {0, 1}
    /\ closed <= opened
    /\ conn_open = opened - closed
    /\ spc \in {"loop", "sleep", "returned"} =>
          (conn_open = 0 /\ iface_held = 0 /\ closed = opened)
    /\ fpc \in {"replied", "done"} =>
          (spc = "returned" /\ conn_open = 0 /\ iface_held = 0 /\ closed = opened)

\* execute returned after three connections: two whose transactions failed
\* and one whose transaction succeeded, each closed
C16_Witness ==
    /\ fpc = "done" /\ spc = "returned"
    /\ opened = 3 /\ closed = 3 /\ submitted = 3 /\ completed = 1
    /\ conn_open = 0 /\ iface_held = 0

(***************************************************************************)
(* More claims about matching (checked under SpecMatch).                   *)
(***************************************************************************)
\* C17: after a run of matching on either transport, match or no match, every
\* native handle the run obtained (registry entries, the iterator, a created
\* AV service, a looked-up parent entry) has been released exactly once,
\* unless it is the handle returned for the Monitor.
C17_HandlesReleased ==
    mpc \in {"matchedA", "matchedB"} =>
        /\ handles.iterators_released = handles.iterators
        /\ handles.parents_released = handles.parents
        /\ mpc = "matchedA" =>
              /\ handles.entries_released = handles.entries - handles.returned
              /\ handles.services_released = handles.services_created
        /\ mpc = "matchedB" =>
              /\ handles.entries_released = handles.entries
              /\ handles.services_released = handles.services_created - handles.returned

\* the entries of the walk that lie in the subtree of the entry at index a:
\* those after it down to the first one that is not deeper than it
Subtree(registry, a) ==
    {k \in (a + 1)..Len(registry) :
        \A j \in (a + 1)..k : registry[j].depth > registry[a].depth}

\* C18: the AV service Transport B matching returns is built from an entry of
\* the proxy class with location External that is a child of the registry
\* entry whose location string is the display's; a proxy entry that precedes
\* that entry in the walk, or lies outside its subtree, is never returned.
C18_ProxyWithinSubtree ==
    (mpc = "matchedB" /\ matchB.kind = "Ok") =>
        LET at == LocationIndex(world.registry, Target.location)
            e == world.registry[matchB.entry]
        IN  /\ at # 0
            /\ e.name = "DCPAVServiceProxy" /\ e.location = "External"
            /\ matchB.entry > at
            /\ matchB.entry \in Subtree(world.registry, at)

\* C19: the chip address Transport B matching produces is 0xB7 exactly when
\* the matched entry's parent is found and its provider class is the known
\* display-bridge class, and 0x37 in every other case (parent not found, class
\* absent, another class); it is part of the result of matching.
C19_ChipAddressFromParent ==
    mpc = "matchedB" =>
        /\ matchB.kind = "Ok" =>
              LET e == world.registry[matchB.entry]
                  bridge == e.parent_ok /\ e.parent_class = "AppleDCPMCDP29XX"
              IN  /\ matchB.chip \in {55, 183}
                  /\ matchB.chip = 183 <=> bridge
                  /\ matchB.chip = 55 <=> ~bridge
        /\ matchB.kind # "Ok" => matchB.chip = 0

\* a proxy under the bridge chip was matched, with address 0xB7
C19_Witness ==
    /\ mpc = "matchedB" /\ matchB.kind = "Ok"
    /\ world.registry[matchB.entry].parent_ok
    /\ world.registry[matchB.entry].parent_class = "AppleDCPMCDP29XX"
    /\ matchB.chip = 183

=============================================================================
